---- MODULE Spec2Model ----
(***************************************************************************)
(* publicprs (src/main.go): list the open pull requests of a repository    *)
(* whose author is not a member of the configured organizations, skip the  *)
(* logins of the botstoexclude list unless includebots is set, print them  *)
(* oldest first and, with addtoproject, link each one to a project board.  *)
(*                                                                         *)
(* One run of main is a sequence of network round-trips; every action      *)
(* below is one round-trip (or one purely local step) of main.  Text is    *)
(* modelled as a sequence of one-character strings, so that strings.Split  *)
(* and the comparison of logins are computed and not assumed.              *)
(***************************************************************************)
EXTENDS Integers, Sequences, FiniteSets, TLC

VARIABLES
    \* ---- the inputs of one run: environment, flags, GitHub's state
    token,            \* os.Getenv("GITHUB_TOKEN")
    orgs,             \* -orgs
    includeBots,      \* -includebots
    botsToExclude,    \* -botstoexclude
    addToProject,     \* -addtoproject
    ghMembers,        \* GitHub: organization login -> its members, in listing order
    ghPRs,            \* GitHub: the open pull requests, in listing order
    board,            \* GitHub: the content ids of the project's items, in listing order
    \* ---- main's locals
    pc,
    orgList, botsToExcludeList, projectGlobalID,
    members, orgIdx, page,
    cursor, pullRequests, prIdx,
    prID, isInProject, added, err,
    \* ---- what the run did
    out,              \* standard output, one record per printed block
    logs,             \* the log package's lines
    reqs,             \* the round-trips issued, oldest first
    synced            \* history: PRs for which an earlier addPRToProject returned no error

inputs == <<token, orgs, includeBots, botsToExclude, addToProject, ghMembers, ghPRs>>
locals == <<orgList, botsToExcludeList, projectGlobalID, members, orgIdx, page,
            cursor, pullRequests, prIdx, prID, isInProject, added, err>>
vars == <<inputs, board, pc, locals, out, logs, reqs, synced>>

----------------------------------------------------------------------------
\* Bounds of the model

MaxPRs == 2          \* the longest list of open PRs in the small worlds
MaxSyncPRs == 2      \* the longest list of open PRs in the worlds that sync
MaxMembers == 201    \* the largest organization of the pagination worlds
MaxItems == 101      \* the largest project board of the board worlds

\* Program constants
perPage == 100       \* fetchOrgMembers: per_page
prFirst == 100       \* pullRequests(first: 100 ...)
itemsFirst == 100    \* items(first: 100)
projectNumber == 79  \* -project default

----------------------------------------------------------------------------
\* Text

Range(s) == {s[i] : i \in DOMAIN s}

Min(a, b) == IF a < b THEN a ELSE b

Comma == ","

DigitChars == <<"0", "1", "2", "3", "4", "5", "6", "7", "8", "9">>

RECURSIVE Decimal(_)
Decimal(n) == IF n < 10 THEN <<DigitChars[n + 1]>>
              ELSE Decimal(n \div 10) \o <<DigitChars[(n % 10) + 1]>>

\* strings.Split(s, ","): the pieces between the separators; Split of the empty
\* text is the one-element list holding the empty text.
RECURSIVE SplitComma(_)
SplitComma(s) ==
    IF \A i \in DOMAIN s : s[i] # Comma
    THEN <<s>>
    ELSE LET i == CHOOSE k \in DOMAIN s :
                      s[k] = Comma /\ \A j \in 1..(k - 1) : s[j] # Comma
         IN  <<SubSeq(s, 1, i - 1)>> \o SplitComma(SubSeq(s, i + 1, Len(s)))

\* (a split that yields no piece for the empty text)
SplitCommaDropEmpty(s) == IF s = <<>> THEN <<>> ELSE SplitComma(s)
StringsSplit(s) == SplitComma(s)

\* slices.Contains
SlicesContains(list, x) == \E i \in DOMAIN list : list[i] = x

HasSuffix(s, suffix) ==
    /\ Len(s) >= Len(suffix)
    /\ SubSeq(s, Len(s) - Len(suffix) + 1, Len(s)) = suffix

\* Logins and names of the worlds
empty == <<>>
alice == <<"a", "l", "i", "c", "e">>
bob == <<"b", "o", "b">>
carol == <<"c", "a", "r", "o", "l">>
botsapp == <<"b", "o", "t", "s", "-", "a", "p", "p", "[", "b", "o", "t", "]">>
acme == <<"a", "c", "m", "e">>
suse == <<"S", "U", "S", "E">>
nosuch == <<"n", "o", "n", "e">>
ghp == <<"g", "h", "p">>
\* The platform's marker of an app account's login
BotMarker == <<"[", "b", "o", "t", "]">>

----------------------------------------------------------------------------
\* GitHub as the run sees it

\* A createdAt text: a local date-time and a zone offset when it is RFC 3339.
RawTime(l, o) == [wellFormed |-> TRUE, local |-> l, offset |-> o]
Malformed == [wellFormed |-> FALSE, local |-> 0, offset |-> 0]

\* parseTime: the instant the text denotes; the run dies on any other text.
parseTimeNeverFails(dateTime) == FALSE
parseTimeFails(dateTime) == ~dateTime.wellFormed
parseTime(dateTime) == dateTime.local - dateTime.offset

\* Node ids are opaque; a pull request's is told apart from an issue's.
ContentID(n) == <<"PR", n>>
IssueID(n) == <<"I", n>>
NoID == <<"", 0>>
ProjectID(n) == <<"PVT", n>>

\* GET /orgs/{org}/members?per_page=100&page=p
MembersPage(org, p) ==
    LET all == ghMembers[org]
    IN  SubSeq(all, (p - 1) * perPage + 1, Min(p * perPage, Len(all)))

\* pullRequests(first: 100, after: $cursor, states: OPEN); a cursor is the
\* position of the last node already returned (0 for the empty cursor).
PRPage(c) ==
    [nodes       |-> SubSeq(ghPRs, c + 1, Min(c + prFirst, Len(ghPRs))),
     endCursor   |-> Min(c + prFirst, Len(ghPRs)),
     hasNextPage |-> c + prFirst < Len(ghPRs)]

\* items(first: 100) { nodes { content { ... on PullRequest { id } } } }:
\* the content id of an item that is no pull request decodes as the empty id.
ItemsPage ==
    [i \in 1..Min(itemsFirst, Len(board)) |->
        IF board[i][1] = "PR" THEN board[i] ELSE NoID]

\* addProjectV2ItemById: GitHub returns the existing item when the content is
\* already on the board.
AddItem(b, cid) == IF cid \in Range(b) THEN b ELSE Append(b, cid)

----------------------------------------------------------------------------
\* The worlds a run starts in

Users(n) == [i \in 1..n |-> <<"u">> \o Decimal(i)]

SmallDirectory == (acme :> <<alice, bob>>) @@ (suse :> <<bob, carol>>)

OrgsFlags == {acme, suse \o <<Comma>> \o acme, acme \o <<Comma>> \o nosuch}
BotsFlags == {empty, carol \o <<Comma>> \o botsapp}

Authors == {empty, alice, carol, botsapp}
RawTimes == {RawTime(1, 0), RawTime(3, 1), Malformed}

Numbered(f) == [i \in DOMAIN f |->
                  [number |-> i, author |-> f[i][1], createdAt |-> f[i][2]]]

PRLists(maxLen, authors, times) ==
    UNION {{Numbered(f) : f \in [1..k -> authors \X times]} : k \in 0..maxLen}

\* n open PRs, newest listed first, by carol and alice in turn
ManyPRs(n) == [i \in 1..n |->
                 [number |-> i,
                  author |-> IF i % 2 = 1 THEN carol ELSE alice,
                  createdAt |-> RawTime(n + 1 - i, 0)]]

Fill(n) == [i \in 1..n |-> IssueID(i)]

World(t, o, ib, bx, ap, gm, gp, b) ==
    [token |-> t, orgs |-> o, includeBots |-> ib, botsToExclude |-> bx,
     addToProject |-> ap, ghMembers |-> gm, ghPRs |-> gp, board |-> b]

NoTokenWorlds ==
    {World(empty, acme, FALSE, empty, ap, SmallDirectory, ManyPRs(1), <<>>) :
        ap \in BOOLEAN}

FilterWorlds ==
    {World(ghp, o, ib, bx, FALSE, SmallDirectory, gp, <<>>) :
        o \in OrgsFlags, ib \in BOOLEAN, bx \in BotsFlags,
        gp \in PRLists(MaxPRs, Authors, RawTimes)}

\* src/README.md's and the design's example: alice and bob are members,
\* #1 is alice's, #2 carol's, #3 the app's
ExampleWorlds ==
    {World(ghp, acme, ib, bx, FALSE, SmallDirectory,
           Numbered(<<<<alice, RawTime(1, 0)>>, <<carol, RawTime(2, 0)>>,
                      <<botsapp, RawTime(3, 0)>>>>), <<>>) :
        ib \in BOOLEAN, bx \in {empty, botsapp}}

SyncWorlds ==
    {World(ghp, acme, FALSE, empty, TRUE, SmallDirectory, gp, b) :
        gp \in PRLists(MaxSyncPRs, {empty, alice, carol},
                       {RawTime(1, 0), RawTime(3, 1)}),
        b \in {<<>>, <<ContentID(1)>>, <<IssueID(1), ContentID(2)>>}}

MemberWorlds ==
    {World(ghp, acme, FALSE, empty, FALSE, (acme :> Users(n)), ManyPRs(1), <<>>) :
        n \in 0..MaxMembers}

ManyPRWorlds ==
    {World(ghp, acme, FALSE, empty, FALSE, SmallDirectory, ManyPRs(n), <<>>) :
        n \in (prFirst - 1)..(prFirst + 1)}

BoardWorlds ==
    {World(ghp, acme, FALSE, empty, TRUE, SmallDirectory, ManyPRs(1), b) :
        b \in {Fill(n) : n \in 0..MaxItems}
              \cup {Append(Fill(n), ContentID(1)) : n \in 0..MaxItems}}

Worlds == NoTokenWorlds \cup FilterWorlds \cup ExampleWorlds \cup SyncWorlds
          \cup MemberWorlds \cup ManyPRWorlds \cup BoardWorlds

----------------------------------------------------------------------------
\* main

Req(kind, org, n, ok, hit) ==
    [kind |-> kind, org |-> org, n |-> n, ok |-> ok, hit |-> hit]
Line(kind, n) == [kind |-> kind, n |-> n]

Fresh ==
    /\ pc = "start"
    /\ orgList = <<>> /\ botsToExcludeList = <<>> /\ projectGlobalID = NoID
    /\ members = {} /\ orgIdx = 1 /\ page = 1
    /\ cursor = 0 /\ pullRequests = <<>> /\ prIdx = 1
    /\ prID = NoID /\ isInProject = FALSE /\ added = FALSE /\ err = "nil"
    /\ out = <<>> /\ logs = <<>> /\ reqs = <<>>

Init ==
    /\ \E w \in Worlds :
        /\ token = w.token /\ orgs = w.orgs /\ includeBots = w.includeBots
        /\ botsToExclude = w.botsToExclude /\ addToProject = w.addToProject
        /\ ghMembers = w.ghMembers /\ ghPRs = w.ghPRs /\ board = w.board
    /\ Fresh
    /\ synced = {}

\* log.Fatal / log.Fatalf: the process exits
Fatal == /\ pc' = "fatal"
         /\ logs' = Append(logs, Line("fatal", 0))

\* main, lines 36-48: the token, then the two lists
Start ==
    /\ pc = "start"
    /\ IF token = empty
       THEN /\ Fatal
            /\ UNCHANGED <<orgList, botsToExcludeList>>
       ELSE /\ orgList' = StringsSplit(orgs)
            /\ botsToExcludeList' = StringsSplit(botsToExclude)
            /\ pc' = "getProjectV2ID"
            /\ UNCHANGED logs
    /\ UNCHANGED <<inputs, board, projectGlobalID, members, orgIdx, page, cursor,
                   pullRequests, prIdx, prID, isInProject, added, err, out, reqs,
                   synced>>

\* main, lines 50-54, and getProjectV2ID
getProjectV2ID ==
    /\ pc = "getProjectV2ID"
    /\ \E ok \in BOOLEAN :
        /\ reqs' = Append(reqs, Req("project", empty, projectNumber, ok, FALSE))
        /\ IF ok
           THEN /\ projectGlobalID' = ProjectID(projectNumber)
                /\ pc' = "fetchOrgMembers"
                /\ UNCHANGED logs
           ELSE /\ Fatal
                /\ UNCHANGED projectGlobalID
    /\ UNCHANGED <<inputs, board, orgList, botsToExcludeList, members, orgIdx, page,
                   cursor, pullRequests, prIdx, prID, isInProject, added, err, out,
                   synced>>

\* fetchOrgMembers, line 331: the page that ends the loop
LastPageLE(n) == n <= perPage
LastPage(n) == n < perPage

\* main, lines 57-64, and one turn of fetchOrgMembers' loop: one page of one
\* organization
fetchOrgMembers ==
    /\ pc = "fetchOrgMembers"
    /\ LET org == orgList[orgIdx] IN
       \E ok \in BOOLEAN :
         IF ~ok \/ org \notin DOMAIN ghMembers
         THEN /\ reqs' = Append(reqs, Req("members", org, page, FALSE, FALSE))
              /\ Fatal
              /\ UNCHANGED <<members, orgIdx, page>>
         ELSE LET orgMembers == MembersPage(org, page) IN
              /\ reqs' = Append(reqs, Req("members", org, page, TRUE, FALSE))
              /\ members' = members \cup Range(orgMembers)
              /\ IF LastPage(Len(orgMembers))
                 THEN /\ logs' = Append(logs, Line("fetched", Cardinality(members')))
                      /\ orgIdx' = orgIdx + 1
                      /\ page' = 1
                      /\ pc' = IF orgIdx = Len(orgList) THEN "fetchPRs"
                                                        ELSE "fetchOrgMembers"
                 ELSE /\ page' = page + 1
                      /\ UNCHANGED <<logs, orgIdx, pc>>
    /\ UNCHANGED <<inputs, board, orgList, botsToExcludeList, projectGlobalID,
                   cursor, pullRequests, prIdx, prID, isInProject, added, err, out,
                   synced>>

\* main, lines 76-146: one page of open pull requests
fetchPRs ==
    /\ pc = "fetchPRs"
    /\ \E ok \in BOOLEAN :
        /\ reqs' = Append(reqs, Req("prs", empty, cursor, ok, FALSE))
        /\ IF ~ok
           THEN /\ Fatal
                /\ UNCHANGED <<cursor, pullRequests>>
           ELSE LET resp == PRPage(cursor) IN
                IF \E i \in DOMAIN resp.nodes : parseTimeFails(resp.nodes[i].createdAt)
                THEN /\ Fatal
                     /\ UNCHANGED <<cursor, pullRequests>>
                ELSE /\ pullRequests' = pullRequests \o
                          [i \in DOMAIN resp.nodes |->
                              [Number    |-> resp.nodes[i].number,
                               CreatedAt |-> parseTime(resp.nodes[i].createdAt),
                               Author    |-> resp.nodes[i].author]]
                     /\ IF ~resp.hasNextPage
                        THEN /\ pc' = "sort"
                             /\ UNCHANGED <<cursor, logs>>
                        ELSE /\ cursor' = resp.endCursor
                             /\ UNCHANGED <<pc, logs>>
    /\ UNCHANGED <<inputs, board, orgList, botsToExcludeList, projectGlobalID,
                   members, orgIdx, page, prIdx, prID, isInProject, added, err, out,
                   synced>>

\* line 149: the order sort.Slice is given
After(a, b) == a.CreatedAt > b.CreatedAt
Before(a, b) == a.CreatedAt < b.CreatedAt

\* sort.Slice is not stable: it may leave the elements in any arrangement in
\* which no element is Before one that precedes it.  SortSlice is the set of
\* these arrangements: around a median element, the arrangements of the
\* elements Before it, any order of those it ties with, the arrangements of
\* the elements it is Before.
Without(s, i) == SubSeq(s, 1, i - 1) \o SubSeq(s, i + 1, Len(s))

RECURSIVE Orders(_)
Orders(s) ==
    IF Len(s) <= 1 THEN {s}
    ELSE UNION {{<<s[i]>> \o r : r \in Orders(Without(s, i))} : i \in DOMAIN s}

RECURSIVE SortSlice(_)
SortSlice(s) ==
    IF Len(s) <= 1 THEN {s}
    ELSE LET m == CHOOSE i \in DOMAIN s :
                    /\ 2 * Cardinality({j \in DOMAIN s : Before(s[j], s[i])}) <= Len(s)
                    /\ 2 * Cardinality({j \in DOMAIN s : Before(s[i], s[j])}) <= Len(s)
             Lower(x) == Before(x, s[m])
             Upper(x) == Before(s[m], x)
             Tied(x) == ~Before(x, s[m]) /\ ~Before(s[m], x)
         IN  {a \o e \o b : a \in SortSlice(SelectSeq(s, Lower)),
                            e \in Orders(SelectSeq(s, Tied)),
                            b \in SortSlice(SelectSeq(s, Upper))}

\* main, lines 148-153: sort, then the heading
Sort ==
    /\ pc = "sort"
    /\ pullRequests' \in SortSlice(pullRequests)
    /\ out' = Append(out, Line("heading", 0))
    /\ prIdx' = 1
    /\ pc' = "print"
    /\ UNCHANGED <<inputs, board, orgList, botsToExcludeList, projectGlobalID,
                   members, orgIdx, page, cursor, prID, isInProject, added, err,
                   logs, reqs, synced>>

\* line 155
NotMember(author) == author \notin members
IsMember(author) == author \in members

\* line 156
ExcludedAlways(author) == SlicesContains(botsToExcludeList, author)
ExcludedAsBot(author) ==
    ~includeBots /\ SlicesContains(botsToExcludeList, author)

\* line 161
SyncAlways == TRUE
WantsSync == addToProject

\* main, lines 154-161: one turn of the loop, up to the call of addPRToProject
PrintEntry ==
    /\ pc = "print"
    /\ prIdx <= Len(pullRequests)
    /\ LET pr == pullRequests[prIdx] IN
       IF IsMember(pr.Author) \/ ExcludedAsBot(pr.Author)
       THEN /\ prIdx' = prIdx + 1
            /\ UNCHANGED <<out, pc>>
       ELSE /\ out' = Append(out, Line("pr", pr.Number))
            /\ IF WantsSync
               THEN /\ pc' = "getPullRequestID"
                    /\ UNCHANGED prIdx
               ELSE /\ prIdx' = prIdx + 1
                    /\ UNCHANGED pc
    /\ UNCHANGED <<inputs, board, orgList, botsToExcludeList, projectGlobalID,
                   members, orgIdx, page, cursor, pullRequests, prID, isInProject,
                   added, err, logs, reqs, synced>>

\* main, line 173-174: the loop is over
Finish ==
    /\ pc = "print"
    /\ prIdx > Len(pullRequests)
    /\ pc' = "done"
    /\ UNCHANGED <<inputs, board, locals, out, logs, reqs, synced>>

\* checkPRInProject, lines 380-386: an item of the page with the PR's content id
NoItemMatches(items, id) == FALSE
SomeItemMatches(items, id) == \E i \in DOMAIN items : items[i] = id

Return(a, e) == /\ added' = a
                /\ err' = e
                /\ pc' = "report"

CurrentPR == pullRequests[prIdx].Number

\* addPRToProject, lines 217-220, and getPullRequestID
getPullRequestID ==
    /\ pc = "getPullRequestID"
    /\ \E ok \in BOOLEAN :
        /\ reqs' = Append(reqs, Req("prid", empty, CurrentPR, ok, FALSE))
        /\ IF ok
           THEN /\ prID' = ContentID(CurrentPR)
                /\ pc' = "checkPRInProject"
                /\ UNCHANGED <<added, err>>
           ELSE /\ prID' = NoID
                /\ Return(FALSE, "prid")
    /\ UNCHANGED <<inputs, board, orgList, botsToExcludeList, projectGlobalID,
                   members, orgIdx, page, cursor, pullRequests, prIdx, isInProject,
                   out, logs, synced>>

\* addPRToProject, lines 223-230, and checkPRInProject
checkPRInProject ==
    /\ pc = "checkPRInProject"
    /\ \E ok \in BOOLEAN :
        /\ reqs' = Append(reqs, Req("items", empty, CurrentPR, ok,
                                    ok /\ ContentID(CurrentPR) \in Range(ItemsPage)))
        /\ IF ok
           THEN /\ isInProject' = SomeItemMatches(ItemsPage, prID)
                /\ IF isInProject'
                   THEN Return(FALSE, "nil")
                   ELSE /\ pc' = "addProjectV2ItemById"
                        /\ UNCHANGED <<added, err>>
           ELSE /\ isInProject' = FALSE
                /\ Return(FALSE, "items")
    /\ UNCHANGED <<inputs, board, orgList, botsToExcludeList, projectGlobalID,
                   members, orgIdx, page, cursor, pullRequests, prIdx, prID,
                   out, logs, synced>>

\* addPRToProject, lines 233-258: the mutation
addProjectV2ItemById ==
    /\ pc = "addProjectV2ItemById"
    /\ \E ok \in BOOLEAN :
        /\ reqs' = Append(reqs, Req("add", empty, CurrentPR, ok, FALSE))
        /\ IF ok
           THEN /\ board' = AddItem(board, prID)
                /\ Return(TRUE, "nil")
           ELSE /\ UNCHANGED board
                /\ Return(FALSE, "add")
    /\ UNCHANGED <<inputs, orgList, botsToExcludeList, projectGlobalID,
                   members, orgIdx, page, cursor, pullRequests, prIdx, prID,
                   isInProject, out, logs, synced>>

\* main, lines 162-172: what the loop does with addPRToProject's result
Report ==
    /\ pc = "report"
    /\ logs' = IF err # "nil" THEN Append(logs, Line("error", CurrentPR)) ELSE logs
    /\ out' = Append(out, Line(IF added THEN "added" ELSE "already", CurrentPR))
    /\ synced' = IF err = "nil" THEN synced \cup {CurrentPR} ELSE synced
    /\ prIdx' = prIdx + 1
    /\ pc' = "print"
    /\ UNCHANGED <<inputs, board, orgList, botsToExcludeList, projectGlobalID,
                   members, orgIdx, page, cursor, pullRequests, prID, isInProject,
                   added, err, reqs>>

Next ==
    \/ Start
    \/ getProjectV2ID
    \/ fetchOrgMembers
    \/ fetchPRs
    \/ Sort
    \/ PrintEntry
    \/ Finish
    \/ getPullRequestID
    \/ checkPRInProject
    \/ addProjectV2ItemById
    \/ Report

Spec == Init /\ [][Next]_vars

\* The tool is run again against the same repository and board.
Rerun ==
    /\ pc = "done"
    /\ pc' = "start"
    /\ orgList' = <<>> /\ botsToExcludeList' = <<>> /\ projectGlobalID' = NoID
    /\ members' = {} /\ orgIdx' = 1 /\ page' = 1
    /\ cursor' = 0 /\ pullRequests' = <<>> /\ prIdx' = 1
    /\ prID' = NoID /\ isInProject' = FALSE /\ added' = FALSE /\ err' = "nil"
    /\ out' = <<>> /\ logs' = <<>> /\ reqs' = <<>>
    /\ UNCHANGED <<inputs, board, synced>>

NextTwice == Next \/ Rerun

SpecTwice == Init /\ [][NextTwice]_vars

----------------------------------------------------------------------------
\* What the claims speak of

\* the member set M: the members of all configured organizations
ConfiguredOrgs == Range(SplitComma(orgs))
M == UNION {Range(ghMembers[o]) : o \in ConfiguredOrgs \cap DOMAIN ghMembers}

\* the logins of the botstoexclude list
ExclusionList == Range(SplitComma(botsToExclude))

IsPRLine(l) == l.kind = "pr"
PrintedPRs == [i \in DOMAIN SelectSeq(out, IsPRLine) |-> SelectSeq(out, IsPRLine)[i].n]
TimesPrinted(n) == Cardinality({i \in DOMAIN PrintedPRs : PrintedPRs[i] = n})
Printed(n) == TimesPrinted(n) > 0

NodeOf(n) == CHOOSE x \in Range(ghPRs) : x.number = n
Instant(x) == x.createdAt.local - x.createdAt.offset

SyncKinds == {"prid", "items", "add"}
Requests(kind, org, n) ==
    {i \in DOMAIN reqs : reqs[i].kind = kind /\ reqs[i].org = org /\ reqs[i].n = n}
MemberRequests(org) == {i \in DOMAIN reqs : reqs[i].kind = "members" /\ reqs[i].org = org}
FinishedOrgs == {orgList[k] : k \in 1..Min(orgIdx - 1, Len(orgList))}
Ceil(a, b) == (a + b - 1) \div b

C2_BotsExcluded ==
    pc = "done" =>
        \A x \in Range(ghPRs) :
            (x.author \notin M
             /\ (HasSuffix(x.author, BotMarker) \/ x.author \in ExclusionList))
            => (Printed(x.number) <=> includeBots)

\* C3 as stated: an organization with at least one member is fetched in
\* exactly ceil(total / page_size) requests.
C3_CeilRequests ==
    \A org \in FinishedOrgs :
        Len(ghMembers[org]) >= 1 =>
            Cardinality(MemberRequests(org)) = Ceil(Len(ghMembers[org]), perPage)

\* C3 as amended: an organization is fetched in exactly
\* floor(total / page_size) + 1 requests, pages 1, 2, ... in turn, all of them
\* answered, and its members are then all in the member set, each once; the
\* member set never holds a login of no configured organization.
C3_Requests ==
    /\ \A org \in FinishedOrgs :
          /\ Cardinality(MemberRequests(org)) = (Len(ghMembers[org]) \div perPage) + 1
          /\ \A i \in MemberRequests(org) : reqs[i].ok
          /\ {reqs[i].n : i \in MemberRequests(org)}
                = 1..((Len(ghMembers[org]) \div perPage) + 1)
          /\ Range(ghMembers[org]) \subseteq members
          /\ Cardinality(members \cap Range(ghMembers[org]))
                = Cardinality(Range(ghMembers[org]))
    /\ members \subseteq M

C3_Witness ==
    /\ pc = "fetchPRs"
    /\ \E org \in FinishedOrgs :
          /\ Len(ghMembers[org]) = 2 * perPage
          /\ Cardinality(MemberRequests(org)) = 3

\* C4: a sync of a PR that follows an earlier sync of the same PR, both without
\* error, reports "already present" and issues no link mutation.
C4_Idempotent ==
    (pc = "report" /\ err = "nil" /\ pullRequests[prIdx].Number \in synced)
        => /\ ~added
           /\ Requests("add", empty, pullRequests[prIdx].Number) = {}

\* C5: a PR one of whose sync steps failed is reported neither as added nor as
\* already present.
C5_ErrorSkipped ==
    \A i \in DOMAIN reqs :
        (reqs[i].kind \in SyncKinds /\ ~reqs[i].ok)
            => \A j \in DOMAIN out :
                  ~(out[j].kind \in {"added", "already"} /\ out[j].n = reqs[i].n)

\* C6: without a token the run ends before any request; a failed member or PR
\* request and a malformed creation time end the run; a run that ended so has
\* printed nothing and has issued no link mutation.
C6_FatalBeforeReport ==
    /\ token = empty => (reqs = <<>> /\ pc \in {"start", "fatal"})
    /\ pc = "fatal" =>
          /\ out = <<>>
          /\ \A i \in DOMAIN reqs : reqs[i].kind # "add"
    /\ \A i \in DOMAIN reqs :
          /\ (reqs[i].kind \in {"members", "prs"} /\ ~reqs[i].ok) => pc = "fatal"
          /\ (reqs[i].kind = "prs" /\ reqs[i].ok
              /\ \E k \in (reqs[i].n + 1)..Min(reqs[i].n + prFirst, Len(ghPRs)) :
                    ~ghPRs[k].createdAt.wellFormed)
             => pc = "fatal"

C6_Witness ==
    /\ pc = "fatal"
    /\ \E i \in DOMAIN reqs :
          /\ reqs[i].kind = "prs" /\ reqs[i].ok
          /\ \E k \in DOMAIN ghPRs : ~ghPRs[k].createdAt.wellFormed
    /\ \E x \in Range(ghPRs) : x.author \notin M

\* C7: the PRs are printed oldest first (of two printed PRs the one printed
\* first was not created after the other), and which PRs are printed depends
\* on the set of fetched PRs alone, not on the order they were fetched in.
C7_OldestFirst ==
    /\ \A i, j \in DOMAIN PrintedPRs :
          i < j => Instant(NodeOf(PrintedPRs[i])) <= Instant(NodeOf(PrintedPRs[j]))
    /\ pc = "done" =>
          Range(PrintedPRs) =
             {x.number : x \in {y \in Range(ghPRs) :
                  /\ y.author \notin M
                  /\ (includeBots \/ y.author \notin ExclusionList)}}

C7_Witness ==
    /\ pc = "done"
    /\ \E i, j \in DOMAIN ghPRs :
          /\ i < j
          /\ Instant(ghPRs[i]) > Instant(ghPRs[j])
          /\ Printed(ghPRs[i].number) /\ Printed(ghPRs[j].number)

\* C8: the link mutation of a PR directly follows a successful listing of the
\* project's items that held no item of the PR, which directly follows the
\* successful resolution of the PR's id; a failed step is the PR's last step;
\* no step is issued twice for a PR; only printed PRs are synced.
C8_SyncSequence ==
    \A i \in DOMAIN reqs :
        LET r == reqs[i] IN
        r.kind \in SyncKinds =>
            /\ Printed(r.n)
            /\ r.kind = "add" =>
                  /\ i > 2
                  /\ reqs[i - 1] = Req("items", empty, r.n, TRUE, FALSE)
                  /\ reqs[i - 2] = Req("prid", empty, r.n, TRUE, FALSE)
            /\ r.kind = "items" =>
                  /\ i > 1
                  /\ reqs[i - 1] = Req("prid", empty, r.n, TRUE, FALSE)
            /\ ~r.ok => \A j \in DOMAIN reqs :
                            j > i => ~(reqs[j].kind \in SyncKinds /\ reqs[j].n = r.n)
            /\ \A j \in DOMAIN reqs :
                  (reqs[j].kind = r.kind /\ reqs[j].n = r.n) => j = i

C8_Witness ==
    /\ pc = "done"
    /\ \E i \in DOMAIN reqs : reqs[i].kind = "add" /\ reqs[i].ok
    /\ \E i \in DOMAIN reqs : reqs[i].kind = "items" /\ ~reqs[i].ok

\* C9: the project lookup is the first request of a run and is issued once,
\* whatever addtoproject is; when it fails the run ends there, with no member
\* fetched and nothing printed; without addtoproject no PR id is resolved, no
\* items are listed and no link mutation is issued.
C9_ProjectLookupFirst ==
    /\ reqs # <<>> => reqs[1].kind = "project"
    /\ \A i \in DOMAIN reqs : i > 1 => reqs[i].kind # "project"
    /\ (pc \notin {"start", "getProjectV2ID"} /\ token # empty) => reqs # <<>>
    /\ (reqs # <<>> /\ ~reqs[1].ok) =>
          /\ pc = "fatal"
          /\ Len(reqs) = 1
          /\ members = {}
          /\ out = <<>>
    /\ ~addToProject => \A i \in DOMAIN reqs : reqs[i].kind \notin SyncKinds

C9_Witness ==
    /\ ~addToProject
    /\ pc = "fatal"
    /\ Len(reqs) = 1
    /\ ~reqs[1].ok

====
